---- MODULE Spec2Model ----
(***************************************************************************)
(* poagov (poa-governance-notifications): the block-window iterator        *)
(* BlockchainIter (src/src/blockchain.rs), the ctrl-c flag                 *)
(* (src/src/main.rs, set_ctrlc_handler) and the driver loop of main        *)
(* (src/src/main.rs).                                                      *)
(*                                                                         *)
(* The main thread is one sequential process whose position is pc; the     *)
(* signal handler and the timer thread of sleep_or_ctrlc run concurrently  *)
(* with it.  Block numbers answered by the endpoint range over             *)
(* 0..MaxBlock, which stays below the largest machine word, so the only    *)
(* u64 operation that can leave its range is the subtraction of            *)
(* StartBlock::Tail in BlockchainIter::new.                                *)
(*                                                                         *)
(* Three further parts look at one call on its own: a call of RpcClient    *)
(* (src/src/client.rs), a call of BallotCreatedLog::from_ethabi_log        *)
(* (src/src/response/common.rs) and an application of a numeric conversion *)
(* (src/src/response/common.rs, src/src/utils.rs, src/src/rpc.rs).         *)
(* Two more look at the decoding of a votingState answer                   *)
(* (src/src/response/v1.rs) and at the contracts Config::new reads         *)
(* (src/src/config.rs), and SpecWindow follows main through the first      *)
(* window of a run over contracts of either version.                       *)
(***************************************************************************)
EXTENDS Integers, Sequences, FiniteSets, TLC

\* ---------------------------------------------------------------- bounds
\* Largest block number the endpoint answers.
MaxBlock == 3
\* The u64 word, scaled down: values are 0..U64Mod-1.
U64Mod == 16
\* Number of monitored contracts (config.contracts).
NumContracts == 2
\* Largest number of ballot-created logs the monitored contracts have in the
\* block range of one window.
MaxLogs == 2
\* Largest configured notification limit.
MaxLimit == 1
\* Largest argument of --start-block and of --tail.
MaxStartArg == 1
\* Largest uint value of an event log parameter, next to one value beyond
\* the u64 word.
MaxTokenUint == 7
\* Largest ballot id a ballot-created log carries.
MaxBallotId == 1
\* Largest number of timer threads of earlier sleep_or_ctrlc calls that still
\* sleep when a call spawns its own.
MaxStaleTimers == 1

VARIABLES
    \* configuration (Config)
    start_cfg,          \* config.start_block : StartBlock
    notification_limit, \* config.notification_limit : -1 stands for None
    version,            \* config.version, the version of every contract
    \* the chain
    chain_ballot_ids,   \* the ballot ids the monitored contracts have given
    \* the ctrl-c flag (poagov_is_running)
    running,
    \* BlockchainIter
    constructed,        \* BlockchainIter::new returned Ok
    start_block, stop_block, on_first_iteration,
    \* sleep_or_ctrlc: the done flag of the current call and its timer thread
    done_sleeping, timer_live,
    stale_timers,       \* timer threads of earlier calls that still sleep
    \* main thread
    pc,                 \* position of the main thread
    ret,                \* value returned by the last next() call
    outcome,            \* how the process ended (value returned by main)
    cur_window,         \* (start_block, stop_block) bound at main.rs:99
    cur_contract,       \* index of the contract in the loop of main.rs:105
    logq,               \* logs of the current contract still to be handled
    notifications,      \* the vector `notifications`
    notif_count,        \* notifications counted by the notifier
    \* history (observation only, never read by an action's guard)
    last_mined_at_new,  \* last mined block answered at construction, kept
                        \* until the second next() call; -1: none
    last_window,        \* the last window emitted, <<>> when there is none
    call_first, call_slept, call_queried, \* about the current next() call
    last_query,         \* what the latest re-query of that call returned
    \* the two below are about the window main handles, until the next call
    window_logs,        \* logs answered for it, each with its contract
    delivered,          \* notifications given to the notifier for it
    stage_error,        \* kind of the error a client call of main returned
                        \* while that window was fetched, "" when none did
    sig_pc,             \* phase of the main thread when ctrl-c arrived
    last_notified,      \* block of the latest notification given to the
                        \* notifier in this run, -1 when there is none
    earlier_notified,   \* the same, when the window at hand was received
    \* one call of RpcClient taken alone
    rpc_call,           \* the method called and the contract it is called for
    rpc_pc,             \* position inside that call
    rpc_body,           \* what the endpoint answered
    rpc_res,            \* what the call returned
    requests_sent,      \* requests executed on the network by that call
    \* one call of BallotCreatedLog::from_ethabi_log taken alone
    log_in,             \* log.params as given
    log_params,         \* the parameters the for loop has still to visit
    ballot_id, ballot_type, creator, \* the three Option locals
    dec_pc,             \* position inside the call
    dec_res,            \* what the call returned
    \* one numeric conversion taken alone
    conv_in,            \* the function applied and its arguments
    conv_out,           \* its result
    \* one decoding of the outputs of votingState taken alone
    vs_in,              \* the kind of the contract and the decoded outputs
    vs_out,             \* what the match of client.rs 154-160 gave
    \* one call of Config::new or of PoaContract::read taken alone
    build_in,           \* the function called and its arguments
    build_pc,           \* position inside that call
    build_cfg,          \* the locals network and version of Config::new
    contracts,          \* the local vector `contracts` of Config::new
    touched,            \* addresses and ABI files read so far
    build_res           \* what the call returned

cfgvars  == <<start_cfg, notification_limit, version, chain_ballot_ids>>
itervars == <<constructed, start_block, stop_block, on_first_iteration>>
timervars == <<done_sleeping, timer_live, stale_timers>>
mainvars == <<cur_window, cur_contract, logq, notifications, notif_count,
              window_logs, delivered, stage_error>>
callvars == <<call_first, call_slept, call_queried, last_query>>
runvars == <<last_notified, earlier_notified>>
clientvars == <<rpc_call, rpc_pc, rpc_body, rpc_res, requests_sent>>
decodevars == <<log_in, log_params, ballot_id, ballot_type, creator, dec_pc,
                dec_res>>
convvars == <<conv_in, conv_out>>
votingvars == <<vs_in, vs_out>>
buildvars == <<build_in, build_pc, build_cfg, contracts, touched, build_res>>
unitvars == <<clientvars, decodevars, convvars, votingvars, buildvars>>
progvars == <<start_cfg, notification_limit, version, chain_ballot_ids,
          running, constructed,
          start_block, stop_block, on_first_iteration, done_sleeping,
          timer_live, stale_timers, pc, ret, outcome, cur_window, cur_contract,
          logq, notifications, notif_count, last_mined_at_new, last_window,
          call_first, call_slept, call_queried, last_query,
          window_logs, delivered, stage_error, sig_pc, last_notified,
          earlier_notified>>
vars == <<progvars, unitvars>>

\* ------------------------------------------------------------ data values
Blocks == 0..MaxBlock

\* config::StartBlock
StartBlocks ==
    {[kind |-> "Earliest", n |-> 0], [kind |-> "Latest", n |-> 0]}
    \cup {[kind |-> "Number", n |-> n] : n \in 0..MaxStartArg}
    \cup {[kind |-> "Tail", n |-> n] : n \in 0..MaxStartArg}

\* config::ContractVersion
ContractVersions == {"V1", "V2"}

\* the ballot ids of the logs (BallotCreatedLog::ballot_id)
BallotIds == 0..MaxBallotId

\* Result<T> of an operation; a panic ends the process instead of returning.
Ok(v)    == [tag |-> "Ok", value |-> v, kind |-> "", a |-> 0, b |-> 0]
Err(k)   == [tag |-> "Err", value |-> 0, kind |-> k, a |-> 0, b |-> 0]
Panic(k) == [tag |-> "Panic", value |-> 0, kind |-> k, a |-> 0, b |-> 0]
StartBlockExceedsLastBlockMined(s, l) ==
    [tag |-> "Err", value |-> 0, kind |-> "StartBlockExceedsLastBlockMined",
     a |-> s, b |-> l]
StillRunning == [tag |-> "Running", value |-> 0, kind |-> "", a |-> 0, b |-> 0]
\* no last-mined-block query was made yet by the current next() call
NoQuery == [tag |-> "NoQuery", value |-> 0, kind |-> "", a |-> 0, b |-> 0]
MainOk(k) == [tag |-> "Ok", value |-> 0, kind |-> k, a |-> 0, b |-> 0]

\* Option<Result<(BlockNumber, BlockNumber)>> returned by next()
NoRet         == [tag |-> "NoRet", start |-> 0, stop |-> 0, kind |-> ""]
RetNone(k)    == [tag |-> "None", start |-> 0, stop |-> 0, kind |-> k]
RetErr(k)     == [tag |-> "Err", start |-> 0, stop |-> 0, kind |-> k]
RetWindow(s, t) == [tag |-> "Window", start |-> s, stop |-> t, kind |-> ""]

\* What the endpoint may answer to eth_blockNumber.
BlockNumberResponses ==
    {[kind |-> k, value |-> 0] :
        k \in {"buildfail", "transport", "failure", "badbody", "batch",
               "nonstring", "badhex"}}
    \cup {[kind |-> "hex", value |-> v] : v \in Blocks}

\* RpcClient::build_request, send and get_last_mined_block_number
get_last_mined_block_number(resp) ==
    CASE resp.kind = "buildfail" -> Err("FailedToBuildRequest")
      [] resp.kind = "transport" -> Err("RequestFailed")
      [] resp.kind = "badbody"   -> Panic("unwrap")
      [] resp.kind = "failure"   -> Err("JsonRpcResponseFailure")
      [] resp.kind = "batch"     -> Panic("unreachable")
      [] resp.kind = "nonstring" -> Panic("unreachable")
      [] resp.kind = "badhex"    -> Panic("unwrap")
      [] resp.kind = "hex"       -> Ok(resp.value)

\* u64 subtraction: with overflow checks (debug build) it panics when the
\* result is negative, without them (release build) it wraps.
U64Sub(x, y, overflow_checks) ==
    IF x >= y THEN Ok(x - y)
    ELSE IF overflow_checks THEN Panic("attempt to subtract with overflow")
    ELSE Ok((x - y + U64Mod) % U64Mod)

\* u64 addition of the iterator; MaxBlock + 1 < U64Mod, so it never wraps.
U64Add(x, y) == (x + y) % U64Mod

\* (variant: the arms of Earliest and Latest exchanged)
ResolveStartBlockSwapped(cfg, last_mined_block, overflow_checks) ==
    CASE cfg.kind = "Earliest" -> Ok(last_mined_block)
      [] cfg.kind = "Latest"   -> Ok(0)
      [] cfg.kind = "Number"   -> Ok(cfg.n)
      [] cfg.kind = "Tail"     -> U64Sub(last_mined_block, cfg.n, overflow_checks)

\* BlockchainIter::new, the match on config.start_block (lines 67-72)
ResolveStartBlock(cfg, last_mined_block, overflow_checks) ==
    CASE cfg.kind = "Earliest" -> Ok(0)
      [] cfg.kind = "Latest"   -> Ok(last_mined_block)
      [] cfg.kind = "Number"   -> Ok(cfg.n)
      [] cfg.kind = "Tail"     -> U64Sub(last_mined_block, cfg.n, overflow_checks)

\* (variant: the comparison off by one)
StartExceedsOffByOne(start, last_mined_block) == start > last_mined_block + 1

\* BlockchainIter::new, the check of line 73
StartExceeds(start, last_mined_block) == start > last_mined_block

\* (variant: every call starts over at the first block)
NextStartOver(stop) == 0

\* BlockchainIter::next, line 97
NextStart(stop) == U64Add(stop, 1)

\* (variant: the loop stops waiting although no block is new)
KeepWaitingOffByOne(start, stop) == start > stop + 1

\* (variant: the loop ends as soon as one new block is mined)
KeepWaitingForOneBlock(start, stop) == start > stop

\* BlockchainIter::next, the loop condition of line 98
KeepWaiting(start, stop) == start >= stop

\* (variants: the flag check of line 108 inverted, and left out)
MayEmitInverted(flag) == ~flag
MayEmitUnchecked(flag) == TRUE

\* (variant: a call that has queried the last mined block skips the check)
MayEmitAfterQuery(flag) == flag \/ call_queried

\* BlockchainIter::next, the flag check of line 108
MayEmit(flag) == flag

\* --------------------------------------------------------------- initial
\* No call of RpcClient, of from_ethabi_log or of a conversion is looked at
\* on its own: the program below makes its calls inside its own steps.
NoResult == [tag |-> "None", value |-> 0, kind |-> "", a |-> 0, b |-> 0]

ClientIdle ==
    /\ rpc_call = [method |-> "none", kind |-> "Keys", has_function |-> TRUE]
    /\ rpc_pc = "idle"
    /\ rpc_body = [kind |-> "none", value |-> 0]
    /\ rpc_res = NoResult
    /\ requests_sent = 0

DecodeIdle ==
    /\ log_in = <<>>
    /\ log_params = <<>>
    /\ ballot_id = [some |-> FALSE, value |-> 0]
    /\ ballot_type = [some |-> FALSE, value |-> 0]
    /\ creator = [some |-> FALSE, value |-> 0]
    /\ dec_pc = "idle"
    /\ dec_res = NoResult

ConvIdle ==
    /\ conv_in = [fn |-> "none", raw |-> 0, total_voters |-> 0]
    /\ conv_out = NoResult

VotingIdle ==
    /\ vs_in = [kind |-> "none", outputs |-> <<>>]
    /\ vs_out = NoResult

NoCall ==
    [entry |-> "none", core |-> FALSE, sokol |-> FALSE, xdai |-> FALSE,
     keys |-> FALSE, threshold |-> FALSE, proxy |-> FALSE, emission |-> FALSE,
     v1 |-> FALSE, v2 |-> FALSE, one_start_block |-> FALSE,
     contract_type |-> "none", network |-> "none", version |-> "none"]

BuildIdle ==
    /\ build_in = NoCall
    /\ build_pc = "idle"
    /\ build_cfg = [network |-> "none", version |-> "none"]
    /\ contracts = <<>>
    /\ touched = 0
    /\ build_res = NoResult

\* main before its first step
ProgramStart ==
    /\ start_cfg \in StartBlocks
    /\ notification_limit \in {0 - 1} \cup 1..MaxLimit
    /\ version \in ContractVersions
    /\ chain_ballot_ids \in {{0}, BallotIds}
    /\ running = TRUE
    /\ constructed = FALSE
    /\ start_block = 0
    /\ stop_block = 0
    /\ on_first_iteration = FALSE
    /\ done_sleeping = FALSE
    /\ timer_live = FALSE
    /\ stale_timers = 0
    /\ pc = "new"
    /\ ret = NoRet
    /\ outcome = StillRunning
    /\ cur_window = <<0, 0>>
    /\ cur_contract = 0
    /\ logq = <<>>
    /\ notifications = <<>>
    /\ notif_count = 0
    /\ last_mined_at_new = 0 - 1
    /\ last_window = <<>>
    /\ call_first = FALSE
    /\ call_slept = FALSE
    /\ call_queried = FALSE
    /\ last_query = NoQuery
    /\ window_logs = <<>>
    /\ delivered = <<>>
    /\ stage_error = ""
    /\ sig_pc = "none"
    /\ last_notified = 0 - 1
    /\ earlier_notified = 0 - 1

\* A run over V2 contracts all of whose ballots have the id 0.
Init ==
    /\ ProgramStart /\ version = "V2" /\ chain_ballot_ids = {0}
    /\ ClientIdle /\ DecodeIdle /\ ConvIdle /\ VotingIdle /\ BuildIdle

\* ------------------------------------------------------ the ctrl-c handler
\* Where the main thread is: constructing the iterator, waiting in
\* sleep_or_ctrlc, elsewhere inside next(), receiving its result, fetching the
\* logs and states of a window, or notifying.
Phase(p) ==
    CASE p = "new" -> "new"
      [] p \in {"sleep_done", "sleep_running"} -> "sleep"
      [] p \in {"call", "while", "query", "emit"} -> "next"
      [] p \in {"logs", "state", "sort"} -> "fetch"
      [] p = "notify" -> "notify"
      [] OTHER -> "ret"

\* (variant: the handler flips the flag instead of clearing it)
SignalToggle ==
    /\ pc # "exit"
    /\ running' = ~running
    /\ sig_pc' = IF running THEN Phase(pc) ELSE sig_pc
    /\ UNCHANGED <<unitvars, runvars, cfgvars,
                   itervars, timervars, pc, ret, outcome, mainvars,
                   last_mined_at_new, last_window, callvars>>

\* set_ctrlc_handler: the closure stores false into poagov_is_running.
Signal ==
    /\ pc # "exit"
    /\ running' = FALSE
    /\ sig_pc' = IF running THEN Phase(pc) ELSE sig_pc
    /\ UNCHANGED <<unitvars, runvars, cfgvars,
                   itervars, timervars, pc, ret, outcome, mainvars,
                   last_mined_at_new, last_window, callvars>>

\* ------------------------------------------------- BlockchainIter::new
New ==
    /\ pc = "new"
    /\ \E resp \in BlockNumberResponses, overflow_checks \in BOOLEAN :
        LET r == get_last_mined_block_number(resp)
            s == ResolveStartBlock(start_cfg, r.value, overflow_checks)
        IN  IF r.tag # "Ok"
            THEN /\ outcome' = r
                 /\ pc' = "exit"
                 /\ UNCHANGED <<itervars, last_mined_at_new>>
            ELSE IF s.tag # "Ok"
            THEN /\ outcome' = s
                 /\ pc' = "exit"
                 /\ last_mined_at_new' = r.value
                 /\ UNCHANGED itervars
            ELSE IF StartExceeds(s.value, r.value)
            THEN /\ outcome' = StartBlockExceedsLastBlockMined(s.value, r.value)
                 /\ pc' = "exit"
                 /\ last_mined_at_new' = r.value
                 /\ UNCHANGED itervars
            ELSE /\ constructed' = TRUE
                 /\ start_block' = s.value
                 /\ stop_block' = r.value
                 /\ on_first_iteration' = TRUE
                 /\ last_mined_at_new' = r.value
                 /\ pc' = "call"
                 /\ UNCHANGED outcome
    /\ UNCHANGED <<unitvars, runvars, cfgvars,
                   running, timervars, ret, mainvars, last_window,
                   callvars, sig_pc>>

\* ------------------------------------------------ BlockchainIter::next
\* lines 94-97: entry of next()
NextEnter ==
    /\ pc = "call"
    /\ call_first' = on_first_iteration
    /\ call_slept' = FALSE
    /\ call_queried' = FALSE
    /\ last_query' = NoQuery
    /\ window_logs' = <<>>
    /\ delivered' = <<>>
    /\ IF on_first_iteration
       THEN /\ on_first_iteration' = FALSE
            /\ pc' = "emit"
            /\ UNCHANGED <<start_block, last_mined_at_new>>
       ELSE /\ start_block' = NextStart(stop_block)
            /\ pc' = "while"
            /\ last_mined_at_new' = 0 - 1
            /\ UNCHANGED on_first_iteration
    /\ UNCHANGED <<unitvars, runvars, cfgvars,
                   running, constructed, stop_block, timervars, ret,
                   outcome, cur_window, cur_contract, logq, notifications,
                   notif_count, stage_error, last_window, sig_pc>>

\* line 98, and lines 27-34 of sleep_or_ctrlc when the loop body is entered:
\* a fresh done flag and a timer thread that sleeps block_time seconds
While ==
    /\ pc = "while"
    /\ IF KeepWaiting(start_block, stop_block)
       THEN /\ stale_timers <= MaxStaleTimers
            /\ done_sleeping' = FALSE
            /\ timer_live' = TRUE
            /\ pc' = "sleep_done"
            /\ UNCHANGED stale_timers
       ELSE /\ pc' = "emit"
            /\ UNCHANGED timervars
    /\ UNCHANGED <<unitvars, runvars, cfgvars,
                   running, itervars, ret, outcome, mainvars,
                   last_mined_at_new, last_window, callvars, sig_pc>>

\* sleep_or_ctrlc line 35: load of done_sleeping; on FinishedSleeping (line 40)
\* the flag of this call is dropped
SleepCheckDone ==
    /\ pc = "sleep_done"
    /\ IF done_sleeping
       THEN /\ pc' = "query"
            /\ call_slept' = TRUE
            /\ done_sleeping' = FALSE
       ELSE /\ pc' = "sleep_running"
            /\ UNCHANGED <<call_slept, done_sleeping>>
    /\ UNCHANGED <<unitvars, runvars, cfgvars, running, itervars, timer_live,
                   stale_timers, ret, outcome,
                   mainvars, last_mined_at_new, last_window, call_first,
                   call_queried, last_query, sig_pc>>

\* (variant: an interrupted sleep is reported as an error result)
SleepCheckRunningAsError ==
    /\ pc = "sleep_running"
    /\ IF ~running
       THEN /\ ret' = RetErr("Interrupted")
            /\ pc' = "ret"
            /\ done_sleeping' = FALSE
            /\ timer_live' = FALSE
            /\ stale_timers' = IF timer_live THEN stale_timers + 1
                               ELSE stale_timers
       ELSE /\ pc' = "sleep_done"
            /\ UNCHANGED <<ret, timervars>>
    /\ UNCHANGED <<unitvars, runvars, cfgvars,
                   running, itervars, outcome, mainvars,
                   last_mined_at_new, last_window, callvars, sig_pc>>

\* (variant: a cancelled wait still lasts until the timer thread has
\* finished)
SleepCheckRunningWaitsForTimer ==
    /\ pc = "sleep_running"
    /\ IF ~running /\ ~timer_live
       THEN /\ ret' = RetNone("CtrlC")
            /\ pc' = "ret"
            /\ done_sleeping' = FALSE
            /\ timer_live' = FALSE
            /\ stale_timers' = IF timer_live THEN stale_timers + 1
                               ELSE stale_timers
       ELSE /\ pc' = "sleep_done"
            /\ UNCHANGED <<ret, timervars>>
    /\ UNCHANGED <<unitvars, runvars, cfgvars,
                   running, itervars, outcome, mainvars,
                   last_mined_at_new, last_window, callvars, sig_pc>>

\* sleep_or_ctrlc lines 36-38: load of running; CtrlC makes next() return
\* None.  The call drops its done flag and leaves its timer thread, when that
\* still sleeps, behind.
SleepCheckRunning ==
    /\ pc = "sleep_running"
    /\ IF ~running
       THEN /\ ret' = RetNone("CtrlC")
            /\ pc' = "ret"
            /\ done_sleeping' = FALSE
            /\ timer_live' = FALSE
            /\ stale_timers' = IF timer_live THEN stale_timers + 1
                               ELSE stale_timers
       ELSE /\ pc' = "sleep_done"
            /\ UNCHANGED <<ret, timervars>>
    /\ UNCHANGED <<unitvars, runvars, cfgvars,
                   running, itervars, outcome, mainvars,
                   last_mined_at_new, last_window, callvars, sig_pc>>

\* the timer thread of sleep_or_ctrlc, lines 31-32: the sleep of block_time
\* seconds is over (it may take any time) and done_sleeping.store(true)
TimerStore ==
    /\ pc # "exit"
    /\ timer_live
    /\ done_sleeping' = TRUE
    /\ timer_live' = FALSE
    /\ UNCHANGED <<unitvars, runvars, cfgvars,
                   running, itervars, stale_timers, pc, ret,
                   outcome, mainvars, last_mined_at_new, last_window,
                   callvars, sig_pc>>

\* (variant: every call waits on one done flag shared with the timer threads
\* of the calls before it)
StaleTimerStoreShared ==
    /\ pc # "exit"
    /\ stale_timers > 0
    /\ stale_timers' = stale_timers - 1
    /\ done_sleeping' = TRUE
    /\ UNCHANGED <<unitvars, runvars, cfgvars,
                   running, itervars, timer_live, pc, ret,
                   outcome, mainvars, last_mined_at_new, last_window,
                   callvars, sig_pc>>

\* a timer thread left behind by an earlier call of sleep_or_ctrlc, lines
\* 31-32: its store goes to the done flag of that call (the Arc of line 27,
\* made anew by every call), which no one reads any more
StaleTimerStore ==
    /\ pc # "exit"
    /\ stale_timers > 0
    /\ stale_timers' = stale_timers - 1
    /\ UNCHANGED <<unitvars, runvars, cfgvars, running, itervars, done_sleeping,
                   timer_live, pc, ret, outcome, mainvars, last_mined_at_new,
                   last_window, callvars, sig_pc>>

\* (variant: a failed re-query is retried after another sleep)
QueryRetriesOnError ==
    /\ pc = "query"
    /\ call_queried' = TRUE
    /\ \E resp \in BlockNumberResponses :
        LET r == get_last_mined_block_number(resp)
        IN  /\ last_query' = r
            /\ CASE r.tag = "Ok" ->
                    /\ stop_block' = r.value
                    /\ pc' = "while"
                    /\ UNCHANGED <<ret, outcome>>
              [] r.tag = "Err" ->
                    /\ pc' = "while"
                    /\ UNCHANGED <<stop_block, ret, outcome>>
              [] r.tag = "Panic" ->
                    /\ outcome' = r
                    /\ pc' = "exit"
                    /\ UNCHANGED <<stop_block, ret>>
    /\ UNCHANGED <<unitvars, runvars, cfgvars,
                   running, constructed, start_block,
                   on_first_iteration, timervars, mainvars, last_mined_at_new,
                   last_window, call_first, call_slept, sig_pc>>

\* lines 102-105: the re-query of the last mined block
Query ==
    /\ pc = "query"
    /\ call_queried' = TRUE
    /\ \E resp \in BlockNumberResponses :
        LET r == get_last_mined_block_number(resp)
        IN  /\ last_query' = r
            /\ CASE r.tag = "Ok" ->
                    /\ stop_block' = r.value
                    /\ pc' = "while"
                    /\ UNCHANGED <<ret, outcome>>
              [] r.tag = "Err" ->
                    /\ ret' = RetErr(r.kind)
                    /\ pc' = "ret"
                    /\ UNCHANGED <<stop_block, outcome>>
              [] r.tag = "Panic" ->
                    /\ outcome' = r
                    /\ pc' = "exit"
                    /\ UNCHANGED <<stop_block, ret>>
    /\ UNCHANGED <<unitvars, runvars, cfgvars,
                   running, constructed, start_block,
                   on_first_iteration, timervars, mainvars, last_mined_at_new,
                   last_window, call_first, call_slept, sig_pc>>

\* lines 108-113: the flag check before a window is returned
Emit ==
    /\ pc = "emit"
    /\ IF MayEmit(running)
       THEN /\ ret' = RetWindow(start_block, stop_block)
            /\ last_window' = <<start_block, stop_block>>
       ELSE /\ ret' = RetNone("Flag")
            /\ UNCHANGED <<last_window>>
    /\ pc' = "ret"
    /\ UNCHANGED <<unitvars, runvars, cfgvars,
                   running, itervars, timervars, outcome, mainvars,
                   last_mined_at_new, callvars, sig_pc>>

IterStep == NextEnter \/ While \/ SleepCheckDone \/ SleepCheckRunning
            \/ Query \/ Emit


\* --------------------------------------------------------------- main
\* config.notification_limit: NoLimit stands for None
NoLimit == 0 - 1

\* A ballot-created log as main uses it: its block number and its ballot id.
Logs == [block : Blocks, ballot_id : chain_ballot_ids]

\* a log next to the contract that answered it
BallotLog(log, contract) ==
    [block |-> log.block, ballot_id |-> log.ballot_id, contract |-> contract]

\* What get_ballot_created_logs may return for the filter (start, stop): a
\* list of logs, each of the first or of the last block of that range, in any
\* order, an error or a panic (client.rs lines 92-131).
RECURSIVE SeqsUpTo(_, _)
SeqsUpTo(S, n) ==
    IF n = 0 THEN {<<>>}
    ELSE LET shorter == SeqsUpTo(S, n - 1)
         IN  shorter \cup {Append(q, x) : q \in {t \in shorter : Len(t) = n - 1}, x \in S}

LogAnswers(start, stop) ==
    {Ok(q) : q \in SeqsUpTo({l \in Logs : l.block \in {start, stop}}, MaxLogs)}
    \cup {Err("RequestFailed"), Err("FailedToParseBallotCreatedLog"),
          Panic("unwrap")}

\* (variant: votingState and getBallotInfo exchanged)
StateRequestSwapped(contract_version, contract, log) ==
    [method |-> IF contract_version = "V1" THEN "getBallotInfo"
                ELSE "votingState",
     contract |-> contract, ballot_id |-> log.ballot_id]

\* main.rs lines 112-117: the call made for a log, votingState of the log's
\* contract when that is a V1 contract and getBallotInfo otherwise, with the
\* log's ballot id
StateRequest(contract_version, contract, log) ==
    [method |-> IF contract_version = "V1" THEN "votingState"
                ELSE "getBallotInfo",
     contract |-> contract, ballot_id |-> log.ballot_id]

\* What get_voting_state / get_ballot_info may return (client.rs 133-230):
\* the state the contract holds for the ballot asked for, an error or a panic.
StateAnswers(request) == {Ok(request), Err("RequestFailed"), Panic("unwrap")}

\* Notification::from_voting_state / from_ballot_info: the notification keeps
\* the log it was built from and the state it was given.
Notification(log, contract, state) ==
    [block |-> log.block, ballot_id |-> log.ballot_id, contract |-> contract,
     state |-> state]

\* Notification::log, next to the contract of the notification
NotificationLog(notif) ==
    [block |-> notif.block, ballot_id |-> notif.ballot_id,
     contract |-> notif.contract]
LogsOf(q) == [i \in 1..Len(q) |-> NotificationLog(q[i])]

\* main.rs lines 124-126: sort_unstable_by on the log's block number; the
\* order of notifications with equal block numbers is not specified.
IsSortedByBlock(q) ==
    \A i \in 1..Len(q), j \in 1..Len(q) : i < j => q[i].block <= q[j].block

\* number of positions of q that hold x
Count(q, x) == Cardinality({i \in 1..Len(q) : q[i] = x})

IsPermutationOf(q, t) ==
    /\ Len(q) = Len(t)
    /\ \A i \in 1..Len(q) : Count(q, q[i]) = Count(t, q[i])

\* q without its i-th element
Without(q, i) == [k \in 1..(Len(q) - 1) |-> IF k < i THEN q[k] ELSE q[k + 1]]

\* every order of q that is ascending by block number
RECURSIVE SortResults(_)
SortResults(q) ==
    IF q = <<>> THEN {<<>>}
    ELSE UNION {{<<q[i]>> \o r : r \in SortResults(Without(q, i))} :
                    i \in {k \in 1..Len(q) :
                                \A m \in 1..Len(q) : q[k].block <= q[m].block}}

\* Notifier::reached_limit
reached_limit(count) ==
    notification_limit # NoLimit /\ count >= notification_limit

\* (variant: the notify loop also stops when the flag is set)
NotifyLoopContinuesWhileRunning(q) == q # <<>> /\ running

\* main.rs line 129: the loop over the sorted notifications goes on while
\* one is left
NotifyLoopContinues(q) == q # <<>>

\* main.rs lines 98-100: the for loop receives the result of next()
MainRecv ==
    /\ pc = "ret"
    /\ CASE ret.tag = "None" ->
                /\ outcome' = MainOk("EndOfSequence")
                /\ pc' = "exit"
                /\ UNCHANGED <<mainvars, runvars>>
         [] ret.tag = "Err" ->
                /\ outcome' = Err(ret.kind)
                /\ pc' = "exit"
                /\ UNCHANGED <<mainvars, runvars>>
         [] ret.tag = "Window" ->
                /\ earlier_notified' = last_notified
                /\ UNCHANGED last_notified
                /\ cur_window' = <<ret.start, ret.stop>>
                /\ notifications' = <<>>
                /\ cur_contract' = 1
                /\ logq' = <<>>
                /\ window_logs' = <<>>
                /\ delivered' = <<>>
                /\ pc' = "logs"
                /\ UNCHANGED <<outcome, notif_count, stage_error>>
    /\ UNCHANGED <<unitvars, cfgvars, running, itervars, timervars, ret,
                   last_mined_at_new, last_window, callvars, sig_pc>>

\* (variant: a failed eth_getLogs is taken for an empty answer)
GetLogsIgnoresFailure ==
    /\ pc = "logs"
    /\ \E ans \in LogAnswers(cur_window[1], cur_window[2]) :
        /\ ans.tag = "Ok" => Len(window_logs) + Len(ans.value) <= MaxLogs
        /\ IF ans.tag = "Panic"
           THEN /\ outcome' = ans
                /\ pc' = "exit"
                /\ notifications' = <<>>
                /\ window_logs' = <<>>
                /\ UNCHANGED <<cur_contract, logq, stage_error>>
           ELSE IF ans.tag = "Err"
           THEN /\ stage_error' = ans.kind
                /\ pc' = IF cur_contract < NumContracts THEN "logs" ELSE "sort"
                /\ cur_contract' = IF cur_contract < NumContracts
                                   THEN cur_contract + 1 ELSE cur_contract
                /\ UNCHANGED <<outcome, notifications, window_logs, logq>>
           ELSE /\ window_logs' = window_logs \o
                       [i \in 1..Len(ans.value) |->
                           BallotLog(ans.value[i], cur_contract)]
                /\ UNCHANGED <<outcome, notifications, stage_error>>
                /\ IF ans.value # <<>>
                   THEN /\ logq' = ans.value
                        /\ pc' = "state"
                        /\ UNCHANGED cur_contract
                   ELSE /\ UNCHANGED logq
                        /\ IF cur_contract < NumContracts
                           THEN /\ cur_contract' = cur_contract + 1
                                /\ pc' = "logs"
                           ELSE /\ UNCHANGED cur_contract
                                /\ pc' = "sort"
    /\ UNCHANGED <<unitvars, runvars, cfgvars,
                   running, itervars, timervars, ret, cur_window,
                   notif_count, delivered, last_mined_at_new, last_window,
                   callvars, sig_pc>>

\* main.rs lines 105-110: logs of the next contract; on a failure main returns
\* and its vector of notifications is dropped
GetLogs ==
    /\ pc = "logs"
    /\ \E ans \in LogAnswers(cur_window[1], cur_window[2]) :
        /\ ans.tag = "Ok" => Len(window_logs) + Len(ans.value) <= MaxLogs
        /\ IF ans.tag # "Ok"
           THEN /\ outcome' = ans
                /\ pc' = "exit"
                /\ notifications' = <<>>
                /\ window_logs' = <<>>
                /\ stage_error' = IF ans.tag = "Err" THEN ans.kind ELSE stage_error
                /\ UNCHANGED <<cur_contract, logq>>
           ELSE /\ window_logs' = window_logs \o
                       [i \in 1..Len(ans.value) |->
                           BallotLog(ans.value[i], cur_contract)]
                /\ UNCHANGED <<outcome, notifications, stage_error>>
                /\ IF ans.value # <<>>
                   THEN /\ logq' = ans.value
                        /\ pc' = "state"
                        /\ UNCHANGED cur_contract
                   ELSE /\ UNCHANGED logq
                        /\ IF cur_contract < NumContracts
                           THEN /\ cur_contract' = cur_contract + 1
                                /\ pc' = "logs"
                           ELSE /\ UNCHANGED cur_contract
                                /\ pc' = "sort"
    /\ UNCHANGED <<unitvars, runvars, cfgvars,
                   running, itervars, timervars, ret, cur_window,
                   notif_count, delivered, last_mined_at_new, last_window,
                   callvars, sig_pc>>

\* main.rs lines 111-120: ballot state of the next log, and its notification
GetState ==
    /\ pc = "state"
    /\ \E ans \in
            StateAnswers(StateRequest(version, cur_contract, Head(logq))) :
        IF ans.tag # "Ok"
        THEN /\ outcome' = ans
             /\ pc' = "exit"
             /\ notifications' = <<>>
             /\ logq' = <<>>
             /\ window_logs' = <<>>
             /\ stage_error' = IF ans.tag = "Err" THEN ans.kind ELSE stage_error
             /\ UNCHANGED cur_contract
        ELSE /\ notifications' =
                    Append(notifications,
                           Notification(Head(logq), cur_contract, ans.value))
             /\ logq' = Tail(logq)
             /\ UNCHANGED <<outcome, window_logs, stage_error>>
             /\ IF Tail(logq) # <<>>
                THEN /\ pc' = "state"
                     /\ UNCHANGED cur_contract
                ELSE IF cur_contract < NumContracts
                THEN /\ cur_contract' = cur_contract + 1
                     /\ pc' = "logs"
                ELSE /\ UNCHANGED cur_contract
                     /\ pc' = "sort"
    /\ UNCHANGED <<unitvars, runvars, cfgvars,
                   running, itervars, timervars, ret, cur_window,
                   notif_count, delivered, last_mined_at_new, last_window,
                   callvars, sig_pc>>

\* (variant: the notifications are left in the order they were pushed)
SortLeftOut ==
    /\ pc = "sort"
    /\ pc' = IF NotifyLoopContinues(notifications) THEN "notify" ELSE "call"
    /\ UNCHANGED <<unitvars, runvars, cfgvars,
                   running, itervars, timervars, ret, outcome,
                   mainvars, last_mined_at_new, last_window, callvars, sig_pc>>

\* main.rs lines 124-126 (and line 138 when there is nothing to notify)
Sort ==
    /\ pc = "sort"
    /\ notifications' \in SortResults(notifications)
    /\ pc' = IF NotifyLoopContinues(notifications) THEN "notify" ELSE "call"
    /\ UNCHANGED <<unitvars, runvars, cfgvars,
                   running, itervars, timervars, ret, outcome,
                   cur_window, cur_contract, logq, notif_count, window_logs,
                   delivered, stage_error, last_mined_at_new, last_window,
                   callvars, sig_pc>>

\* (variant: a reached limit ends the run only after the window's last
\* notification)
NotifyFinishesWindow ==
    /\ pc = "notify"
    /\ delivered' = Append(delivered, Head(notifications))
    /\ notif_count' = IF notification_limit = NoLimit THEN notif_count
                      ELSE notif_count + 1
    /\ notifications' = Tail(notifications)
    /\ last_notified' = Head(notifications).block
    /\ IF reached_limit(notif_count') /\ Tail(notifications) = <<>>
       THEN /\ outcome' = MainOk("LimitReached")
            /\ pc' = "exit"
       ELSE /\ UNCHANGED outcome
            /\ pc' = IF NotifyLoopContinues(Tail(notifications))
                     THEN "notify" ELSE "call"
    /\ UNCHANGED <<unitvars, cfgvars, running, itervars, timervars, ret,
                   cur_window, cur_contract, logq, window_logs, stage_error,
                   last_mined_at_new, last_window, callvars, sig_pc,
                   earlier_notified>>

\* main.rs lines 129-138: one turn of the notify loop
Notify ==
    /\ pc = "notify"
    /\ delivered' = Append(delivered, Head(notifications))
    /\ notif_count' = IF notification_limit = NoLimit THEN notif_count
                      ELSE notif_count + 1
    /\ notifications' = Tail(notifications)
    /\ last_notified' = Head(notifications).block
    /\ IF reached_limit(notif_count')
       THEN /\ outcome' = MainOk("LimitReached")
            /\ pc' = "exit"
       ELSE /\ UNCHANGED outcome
            /\ pc' = IF NotifyLoopContinues(Tail(notifications))
                     THEN "notify" ELSE "call"
    /\ UNCHANGED <<unitvars, cfgvars, running, itervars, timervars, ret,
                   cur_window, cur_contract, logq, window_logs, stage_error,
                   last_mined_at_new, last_window, callvars, sig_pc,
                   earlier_notified>>

MainStep == New \/ MainRecv \/ GetLogs \/ GetState \/ Sort \/ Notify

\* The program: main drives the iterator, the signal handler and the timer
\* thread run beside it.
Next == MainStep \/ IterStep \/ Signal \/ TimerStore \/ StaleTimerStore

Spec == Init /\ [][Next]_vars

\* The first window of a run from the earliest block, handled by main
\* without a signal, over contracts of either version with ballots of
\* several ids.
InitWindow ==
    /\ ProgramStart /\ chain_ballot_ids = BallotIds
    /\ start_cfg = [kind |-> "Earliest", n |-> 0]
    /\ ClientIdle /\ DecodeIdle /\ ConvIdle /\ VotingIdle /\ BuildIdle

NextWindow == New \/ NextEnter \/ Emit \/ MainRecv \/ GetLogs \/ GetState
              \/ Sort \/ Notify

SpecWindow == InitWindow /\ [][NextWindow]_vars

\* The iterator behind its public interface: the caller may go on calling
\* next() whatever the previous call returned.
CallerNext ==
    /\ pc = "ret"
    /\ pc' = "call"
    /\ UNCHANGED <<unitvars, runvars, cfgvars,
                   running, itervars, timervars, ret, outcome,
                   mainvars, last_mined_at_new, last_window, callvars, sig_pc>>

NextIter == New \/ IterStep \/ CallerNext \/ Signal \/ TimerStore
            \/ StaleTimerStore

InitIter == Init /\ notification_limit = NoLimit

SpecIter == InitIter /\ [][NextIter]_vars


\* The iterator when nobody presses ctrl-c; the main thread keeps being
\* scheduled, so a step of next() that is possible is eventually taken.
NextLive == New \/ IterStep \/ CallerNext \/ TimerStore

SpecLive == InitIter /\ [][NextLive]_vars /\ WF_vars(IterStep)

\* ======================================================================
\* RpcClient, one call at a time (client.rs)
\* ======================================================================
\* config::ContractType
ContractTypes == {"Keys", "Threshold", "Proxy", "Emission"}

\* What the endpoint may answer to an eth_call: no answer at all, a JSON-RPC
\* failure object, a body that is no JSON-RPC response, a batch of responses,
\* a result that is no string, a string that is no hex, hex data that does
\* not decode as the function's outputs, and well-formed output data.
EthCallResponses ==
    {[kind |-> k, value |-> 0] :
        k \in {"transport", "failure", "badbody", "batch", "nonstring",
               "badhex", "baddata", "data"}}

\* RpcClient::send (lines 64-80), Ok(0) standing for Ok(resp.result)
send(resp) ==
    CASE resp.kind = "transport" -> Err("RequestFailed")
      [] resp.kind = "badbody"   -> Panic("unwrap")
      [] resp.kind = "failure"   -> Err("JsonRpcResponseFailure")
      [] resp.kind = "batch"     -> Panic("unreachable")
      [] OTHER                   -> Ok(0)

\* RpcClient::get_voting_state from the answer on (lines 150-162)
get_voting_state(kind, resp) ==
    LET r == send(resp)
    IN  IF r.tag # "Ok" THEN r
        ELSE CASE resp.kind = "nonstring" -> Panic("unreachable")
               [] resp.kind = "badhex"    -> Panic("unwrap")
               [] resp.kind = "baddata"   -> Panic("unwrap")
               [] OTHER ->
                    IF kind = "Emission"
                    THEN Err("EmissionFundsV1ContractDoesNotExist")
                    ELSE Ok(0)

\* RpcClient::get_ballot_info from the answer on (lines 199-211)
get_ballot_info(kind, resp) ==
    LET r == send(resp)
    IN  IF r.tag # "Ok" THEN r
        ELSE CASE resp.kind = "nonstring" -> Panic("unreachable")
               [] resp.kind = "badhex"    -> Panic("unwrap")
               [] resp.kind = "baddata"   -> Panic("unwrap")
               [] OTHER                   -> Ok(0)

\* The calls looked at: the method, the kind of the contract and whether the
\* contract's ABI declares the function the method calls.
RpcCalls ==
    {[method |-> "get_last_mined_block_number", kind |-> "Keys",
      has_function |-> TRUE]}
    \cup [method : {"get_voting_state", "get_ballot_info"},
          kind : ContractTypes, has_function : BOOLEAN]

InitClient ==
    /\ ProgramStart /\ DecodeIdle /\ ConvIdle /\ VotingIdle /\ BuildIdle
    /\ start_cfg = [kind |-> "Earliest", n |-> 0]
    /\ notification_limit = NoLimit
    /\ version = "V2"
    /\ chain_ballot_ids = {0}
    /\ rpc_call \in RpcCalls
    /\ rpc_pc = IF rpc_call.method = "get_last_mined_block_number"
                THEN "build" ELSE "function"
    /\ rpc_body = [kind |-> "none", value |-> 0]
    /\ rpc_res = NoResult
    /\ requests_sent = 0

\* contract.function(..) (client.rs 134 and 171, config.rs 160-162): the
\* lookup is unwrapped
ClientFunction ==
    /\ rpc_pc = "function"
    /\ IF rpc_call.has_function
       THEN /\ rpc_pc' = "build"
            /\ UNCHANGED rpc_res
       ELSE /\ rpc_pc' = "done"
            /\ rpc_res' = Panic("unwrap")
    /\ UNCHANGED <<progvars, rpc_call, rpc_body, requests_sent, decodevars,
                   convvars, votingvars,
                   buildvars>>

\* RpcClient::build_request (lines 45-62) and the `?` of its caller
ClientBuild ==
    /\ rpc_pc = "build"
    /\ \E built \in BOOLEAN :
        IF built
        THEN /\ rpc_pc' = "send"
             /\ UNCHANGED rpc_res
        ELSE /\ rpc_pc' = "done"
             /\ rpc_res' = Err("FailedToBuildRequest")
    /\ UNCHANGED <<progvars, rpc_call, rpc_body, requests_sent, decodevars,
                   convvars, votingvars,
                   buildvars>>

\* RpcClient::send, client.execute(req) (lines 65-68): the request goes out
\* and the endpoint answers
ClientExecute ==
    /\ rpc_pc = "send"
    /\ requests_sent' = requests_sent + 1
    /\ rpc_body' \in IF rpc_call.method = "get_last_mined_block_number"
                     THEN {r \in BlockNumberResponses : r.kind # "buildfail"}
                     ELSE EthCallResponses
    /\ rpc_pc' = "answered"
    /\ UNCHANGED <<progvars, rpc_call, rpc_res, decodevars, convvars,
                   votingvars, buildvars>>

\* the rest of send and of the method that called it
ClientReturn ==
    /\ rpc_pc = "answered"
    /\ rpc_res' =
            CASE rpc_call.method = "get_last_mined_block_number" ->
                    get_last_mined_block_number(rpc_body)
              [] rpc_call.method = "get_voting_state" ->
                    get_voting_state(rpc_call.kind, rpc_body)
              [] OTHER -> get_ballot_info(rpc_call.kind, rpc_body)
    /\ rpc_pc' = "done"
    /\ UNCHANGED <<progvars, rpc_call, rpc_body, requests_sent, decodevars,
                   convvars, votingvars,
                   buildvars>>

NextClient == ClientFunction \/ ClientBuild \/ ClientExecute \/ ClientReturn

SpecClient == InitClient /\ [][NextClient]_vars

\* ======================================================================
\* BallotCreatedLog::from_ethabi_log, one call at a time (response/common.rs)
\* ======================================================================
\* The names the three arms of line 120-122 match, and one other name.
RequiredNames == {"id", "ballotType", "creator"}
ParamNames == RequiredNames \cup {"memo"}

\* ethabi::Token, as far as to_uint and to_address tell the tokens apart
Tokens ==
    {[type |-> "Uint", value |-> v] : v \in (0..MaxTokenUint) \cup {U64Mod + 1}}
    \cup {[type |-> "Address", value |-> 0]}

\* every list of distinct names out of a set of names
RECURSIVE NameOrders(_)
NameOrders(names) ==
    {<<>>} \cup
    UNION {{<<n>> \o q : q \in NameOrders(names \ {n})} : n \in names}

\* ethabi::Log: the parameters called ns[1], ns[2], .. with the values
\* f[1], f[2], ..
LogOf(ns, f) == [i \in 1..Len(ns) |-> [name |-> ns[i], value |-> f[i]]]

\* Option<T>
None == [some |-> FALSE, value |-> 0]
Some(v) == [some |-> TRUE, value |-> v]

\* ethabi::Token::to_uint and to_address
to_uint(token) == IF token.type = "Uint" THEN Some(token.value) ELSE None
to_address(token) == IF token.type = "Address" THEN Some(token.value) ELSE None

\* H256::low_u64 of the topic made from a uint (lines 72 and 79)
low_u64(v) == v % U64Mod

\* the last code the match of lines 79-88 has an arm for (BallotType::Emission)
LastBallotTypeCode == 6

\* impl From<U256> for BallotType (lines 70-90): the type of that code, or
\* the unreachable! of line 87
BallotTypeFrom(v) ==
    IF low_u64(v) <= LastBallotTypeCode THEN Ok(low_u64(v))
    ELSE Panic("unreachable")

InitDecode ==
    /\ ProgramStart /\ ClientIdle /\ ConvIdle /\ VotingIdle /\ BuildIdle
    /\ start_cfg = [kind |-> "Earliest", n |-> 0]
    /\ notification_limit = NoLimit
    /\ version = "V2"
    /\ chain_ballot_ids = {0}
    /\ \E ns \in NameOrders(ParamNames) :
        \E f \in [1..Len(ns) -> Tokens] : log_in = LogOf(ns, f)
    /\ log_params = log_in
    /\ ballot_id = None
    /\ ballot_type = None
    /\ creator = None
    /\ dec_pc = "loop"
    /\ dec_res = NoResult

\* lines 118-125: one turn of the loop over log.params
DecodeParam ==
    /\ dec_pc = "loop"
    /\ log_params # <<>>
    /\ log_params' = Tail(log_params)
    /\ LET name == Head(log_params).name
           value == Head(log_params).value
       IN  CASE name = "id" ->
                    /\ ballot_id' = to_uint(value)
                    /\ UNCHANGED <<ballot_type, creator, dec_pc, dec_res>>
             [] name = "ballotType" ->
                    IF to_uint(value).some
                    THEN LET t == BallotTypeFrom(to_uint(value).value)
                         IN  IF t.tag = "Ok"
                             THEN /\ ballot_type' = Some(t.value)
                                  /\ UNCHANGED <<ballot_id, creator, dec_pc,
                                                 dec_res>>
                             ELSE /\ dec_res' = t
                                  /\ dec_pc' = "done"
                                  /\ UNCHANGED <<ballot_id, ballot_type,
                                                 creator>>
                    ELSE /\ ballot_type' = None
                         /\ UNCHANGED <<ballot_id, creator, dec_pc, dec_res>>
             [] name = "creator" ->
                    /\ creator' = to_address(value)
                    /\ UNCHANGED <<ballot_id, ballot_type, dec_pc, dec_res>>
             [] OTHER ->
                    /\ dec_res' = Panic("unreachable")
                    /\ dec_pc' = "done"
                    /\ UNCHANGED <<ballot_id, ballot_type, creator>>
    /\ UNCHANGED <<progvars, clientvars, log_in, convvars, votingvars,
                   buildvars>>

\* lines 126-138: the three Option locals are unwrapped in turn
DecodeReturn ==
    /\ dec_pc = "loop"
    /\ log_params = <<>>
    /\ dec_res' = IF ~ballot_id.some \/ ~ballot_type.some \/ ~creator.some
                  THEN Err("FailedToParseBallotCreatedLog")
                  ELSE Ok(ballot_type.value)
    /\ dec_pc' = "done"
    /\ UNCHANGED <<progvars, clientvars, log_in, log_params, ballot_id,
                   ballot_type, creator, convvars, votingvars,
                   buildvars>>

NextDecode == DecodeParam \/ DecodeReturn

SpecDecode == InitDecode /\ [][NextDecode]_vars

\* ======================================================================
\* The numeric conversions, one application at a time
\* ======================================================================
\* The 256-bit word of U256, scaled like the u64 word.
U256Mod == U64Mod * 4
\* i64::MAX for the scaled word
I64Max == (U64Mod \div 2) - 1
\* The largest number of seconds NaiveDateTime::from_timestamp takes (the end
\* of chrono's last year), which lies far below i64::MAX; scaled.
ChronoMaxSecs == U64Mod \div 4

\* the cast `x as i64` of a u64
as_i64(x) == IF x > I64Max THEN x - U64Mod ELSE x

\* U256::as_u64: panics when the value does not fit
as_u64(v) == IF v < U64Mod THEN Ok(v) ELSE Panic("Integer overflow when casting U256")

\* i64::try_from(x).unwrap() of a u64
i64_try_from_unwrap(x) == IF x <= I64Max THEN Ok(x) ELSE Panic("unwrap")

\* NaiveDateTime::from_timestamp(secs, 0), the time given as its number of
\* seconds since the epoch: panics outside chrono's range
from_timestamp(secs) ==
    IF secs <= ChronoMaxSecs /\ secs >= 0 - ChronoMaxSecs THEN Ok(secs)
    ELSE Panic("invalid or out-of-range datetime")

\* response/common.rs, u256_to_datetime (lines 11-15)
u256_to_datetime(uint) == from_timestamp(as_i64(low_u64(uint)))

\* utils.rs, u256_to_datetime (lines 14-18)
utils_u256_to_datetime(uint) ==
    LET u == as_u64(uint)
    IN  IF u.tag # "Ok" THEN u
        ELSE LET n_secs == i64_try_from_unwrap(u.value)
             IN  IF n_secs.tag # "Ok" THEN n_secs
                 ELSE from_timestamp(n_secs.value)

\* rpc.rs, the match that computes `progress` (lines 200-203 and 250-253)
VotingData_progress(raw, total_voters) ==
    LET lsb == low_u64(raw)
    IN  IF lsb <= total_voters THEN Ok(as_i64(lsb))
        ELSE i64_try_from_unwrap((U64Mod - 1) - lsb + 1)

\* response/v1.rs, `progress` of the voting states (line 116): the token's
\* U256 as it is
VotingState_progress(raw) == Ok(raw)

ConvInputs ==
    [fn : {"VotingData_progress", "VotingState_progress"},
     raw : 0..(U256Mod - 1), total_voters : 0..(U64Mod - 1)]
    \cup [fn : {"u256_to_datetime", "utils_u256_to_datetime"},
          raw : 0..(U256Mod - 1), total_voters : {0}]

InitConv ==
    /\ ProgramStart /\ ClientIdle /\ DecodeIdle /\ VotingIdle /\ BuildIdle
    /\ start_cfg = [kind |-> "Earliest", n |-> 0]
    /\ notification_limit = NoLimit
    /\ version = "V2"
    /\ chain_ballot_ids = {0}
    /\ conv_in \in ConvInputs
    /\ conv_out = NoResult

ApplyVotingDataProgress ==
    /\ conv_in.fn = "VotingData_progress" /\ conv_out = NoResult
    /\ conv_out' = VotingData_progress(conv_in.raw, conv_in.total_voters)
    /\ UNCHANGED <<progvars, clientvars, decodevars, conv_in, votingvars,
                   buildvars>>

ApplyVotingStateProgress ==
    /\ conv_in.fn = "VotingState_progress" /\ conv_out = NoResult
    /\ conv_out' = VotingState_progress(conv_in.raw)
    /\ UNCHANGED <<progvars, clientvars, decodevars, conv_in, votingvars,
                   buildvars>>

ApplyU256ToDatetime ==
    /\ conv_in.fn = "u256_to_datetime" /\ conv_out = NoResult
    /\ conv_out' = u256_to_datetime(conv_in.raw)
    /\ UNCHANGED <<progvars, clientvars, decodevars, conv_in, votingvars,
                   buildvars>>

ApplyUtilsU256ToDatetime ==
    /\ conv_in.fn = "utils_u256_to_datetime" /\ conv_out = NoResult
    /\ conv_out' = utils_u256_to_datetime(conv_in.raw)
    /\ UNCHANGED <<progvars, clientvars, decodevars, conv_in, votingvars,
                   buildvars>>

NextConv == ApplyVotingDataProgress \/ ApplyVotingStateProgress
            \/ ApplyU256ToDatetime \/ ApplyUtilsU256ToDatetime

SpecConv == InitConv /\ [][NextConv]_vars

\* ======================================================================
\* The outputs of votingState made into a VotingState (client.rs 154-160,
\* response/v1.rs), one decoding at a time
\* ======================================================================
\* Largest uint value of an output of votingState.
MaxOutputUint == 1

\* the last code the match of v1.rs lines 29-35 has an arm for (Rejected)
LastQuorumStateCode == 3

\* impl From<U256> for QuorumState (v1.rs lines 27-37): the state of that
\* code, or the unreachable! of line 34
QuorumStateFrom(uint) ==
    IF low_u64(uint) <= LastQuorumStateCode THEN Ok(low_u64(uint))
    ELSE Panic("unreachable")

\* tokens[k] of the Rust vector, whose first element is tokens[0]
tok(tokens, k) == tokens[k + 1]

\* What function.decode_output gives for votingState of the V1 threshold
\* contract: eleven tokens of the types its ABI declares (uint startTime,
\* uint endTime, uint totalVoters, int progress, bool isFinalized,
\* uint8 quorumState, uint index, uint minThresholdOfVoters,
\* uint proposedValue, address creator, string memo), the values being
\* whatever the endpoint sent.
OutputUints == 0..MaxOutputUint
OutputTimes == {1, ChronoMaxSecs + 1}
OutputAddresses == {"0x0000", "0x82e4"}
OutputStrings == {"", "memo"}
ThresholdOutputs ==
    {<<st, et, tv, pr, fin, qs, ix, mt, pv, cr, me>> :
        st \in OutputTimes, et \in OutputTimes, tv \in OutputUints,
        pr \in OutputUints, fin \in BOOLEAN,
        qs \in (0..(LastQuorumStateCode + 1)) \cup {U64Mod + 1},
        ix \in OutputUints, mt \in OutputUints,
        pv \in OutputUints \cup {4}, cr \in OutputAddresses,
        me \in OutputStrings}

\* (variant: proposed_value read from the position of
\* min_threshold_of_voters)
ThresholdVotingStateFromShifted(tokens) ==
    LET start_time == u256_to_datetime(tok(tokens, 0))
        end_time == u256_to_datetime(tok(tokens, 1))
        quorum_state == QuorumStateFrom(tok(tokens, 5))
    IN  IF start_time.tag # "Ok" THEN start_time
        ELSE IF end_time.tag # "Ok" THEN end_time
        ELSE IF quorum_state.tag # "Ok" THEN quorum_state
        ELSE Ok([variant |-> "Threshold",
                 start_time |-> start_time.value,
                 end_time |-> end_time.value,
                 total_voters |-> tok(tokens, 2),
                 progress |-> tok(tokens, 3),
                 is_finalized |-> tok(tokens, 4),
                 quorum_state |-> quorum_state.value,
                 index |-> tok(tokens, 6),
                 min_threshold_of_voters |-> tok(tokens, 7),
                 proposed_value |-> tok(tokens, 7),
                 creator |-> tok(tokens, 9),
                 memo |-> tok(tokens, 10)])

\* impl From<Vec<ethabi::Token>> for ThresholdVotingState (v1.rs lines
\* 189-222) and the Threshold arm of client.rs line 156; the conversions of
\* lines 193, 197 and 202 may panic, the unwraps of to_uint, to_int, to_bool,
\* to_address and to_string do not, the tokens having the ABI's types
ThresholdVotingStateFrom(tokens) ==
    LET start_time == u256_to_datetime(tok(tokens, 0))
        end_time == u256_to_datetime(tok(tokens, 1))
        quorum_state == QuorumStateFrom(tok(tokens, 5))
    IN  IF start_time.tag # "Ok" THEN start_time
        ELSE IF end_time.tag # "Ok" THEN end_time
        ELSE IF quorum_state.tag # "Ok" THEN quorum_state
        ELSE Ok([variant |-> "Threshold",
                 start_time |-> start_time.value,
                 end_time |-> end_time.value,
                 total_voters |-> tok(tokens, 2),
                 progress |-> tok(tokens, 3),
                 is_finalized |-> tok(tokens, 4),
                 quorum_state |-> quorum_state.value,
                 index |-> tok(tokens, 6),
                 min_threshold_of_voters |-> tok(tokens, 7),
                 proposed_value |-> tok(tokens, 8),
                 creator |-> tok(tokens, 9),
                 memo |-> tok(tokens, 10)])

InitVoting ==
    /\ ProgramStart /\ ClientIdle /\ DecodeIdle /\ ConvIdle /\ BuildIdle
    /\ start_cfg = [kind |-> "Earliest", n |-> 0]
    /\ notification_limit = NoLimit
    /\ version = "V2"
    /\ chain_ballot_ids = {0}
    /\ vs_in \in [kind : {"Threshold"}, outputs : ThresholdOutputs]
    /\ vs_out = NoResult

\* client.rs lines 154-160 for a contract of kind Threshold
DecodeThresholdOutputs ==
    /\ vs_in.kind = "Threshold" /\ vs_out = NoResult
    /\ vs_out' = ThresholdVotingStateFrom(vs_in.outputs)
    /\ UNCHANGED <<progvars, clientvars, decodevars, convvars, vs_in,
                   buildvars>>

NextVoting == DecodeThresholdOutputs

SpecVoting == InitVoting /\ [][NextVoting]_vars

\* ======================================================================
\* Config::new and PoaContract::read, one call at a time (config.rs)
\* ======================================================================
Networks == {"Core", "Sokol", "XDai"}

\* PoaContract
PoaContract(kind, contract_version) ==
    [kind |-> kind, version |-> contract_version]

\* What PoaContract::read finds in the environment: no address variable, an
\* address that does not parse, no ABI file, an ABI file that does not load,
\* or all of them in order.
ReadEnvs == {"noaddr", "badaddr", "noabi", "badabi", "good"}

\* (variant: PoaContract::read without the check of lines 131-133)
PoaContract_read_unchecked(contract_type, network, contract_version, env) ==
    CASE env = "noaddr"  -> [res |-> Err("MissingEnvVar"), touched |-> 1]
      [] env = "badaddr" -> [res |-> Err("InvalidContractAddr"), touched |-> 1]
      [] env = "noabi"   -> [res |-> Err("MissingAbiFile"), touched |-> 2]
      [] env = "badabi"  -> [res |-> Err("InvalidAbi"), touched |-> 2]
      [] env = "good"    -> [res |-> Ok(PoaContract(contract_type, contract_version)),
                             touched |-> 2]

\* PoaContract::read (lines 125-154): its result, and how many of the address
\* variable and the ABI file it has read
PoaContract_read(contract_type, network, contract_version, env) ==
    IF contract_type = "Emission" /\ contract_version = "V1"
    THEN [res |-> Err("EmissionFundsV1ContractDoesNotExist"), touched |-> 0]
    ELSE CASE env = "noaddr"  -> [res |-> Err("MissingEnvVar"), touched |-> 1]
           [] env = "badaddr" ->
                [res |-> Err("InvalidContractAddr"), touched |-> 1]
           [] env = "noabi"   -> [res |-> Err("MissingAbiFile"), touched |-> 2]
           [] env = "badabi"  -> [res |-> Err("InvalidAbi"), touched |-> 2]
           [] env = "good"    ->
                [res |-> Ok(PoaContract(contract_type, contract_version)),
                 touched |-> 2]

\* Cli::one_network_specified, no_contracts_specified and
\* multiple_versions_specified (cli.rs)
one_network_specified(cli) ==
    \/ cli.core /\ ~cli.sokol /\ ~cli.xdai
    \/ ~cli.core /\ cli.sokol /\ ~cli.xdai
    \/ ~cli.core /\ ~cli.sokol /\ cli.xdai
no_contracts_specified(cli) ==
    ~cli.keys /\ ~cli.threshold /\ ~cli.proxy /\ ~cli.emission
multiple_versions_specified(cli) == cli.v1 /\ cli.v2

\* the flag of lines 240, 244, 248 and 252 for each kind of contract, and the
\* kind Config::new turns to next
CliFlag(cli, kind) ==
    CASE kind = "Keys" -> cli.keys
      [] kind = "Threshold" -> cli.threshold
      [] kind = "Proxy" -> cli.proxy
      [] kind = "Emission" -> cli.emission
AfterKind(kind) ==
    CASE kind = "Keys" -> "Threshold"
      [] kind = "Threshold" -> "Proxy"
      [] kind = "Proxy" -> "Emission"
      [] kind = "Emission" -> "rest"

\* The command lines looked at (the flags Config::new reads before it builds
\* the contracts, the start block options taken together) and the direct
\* calls of PoaContract::read.
BuildCalls ==
    {[NoCall EXCEPT !.entry = "Config::new", !.core = c, !.sokol = s,
                    !.xdai = x, !.keys = k, !.threshold = t, !.proxy = p,
                    !.emission = e, !.v1 = a, !.v2 = b,
                    !.one_start_block = o] :
        c \in BOOLEAN, s \in BOOLEAN, x \in BOOLEAN, k \in BOOLEAN,
        t \in BOOLEAN, p \in BOOLEAN, e \in BOOLEAN, a \in BOOLEAN,
        b \in BOOLEAN, o \in BOOLEAN}
    \cup {[NoCall EXCEPT !.entry = "PoaContract::read", !.contract_type = k,
                         !.network = n, !.version = v] :
            k \in ContractTypes, n \in Networks, v \in ContractVersions}

InitBuild ==
    /\ ProgramStart /\ ClientIdle /\ DecodeIdle /\ ConvIdle /\ VotingIdle
    /\ start_cfg = [kind |-> "Earliest", n |-> 0]
    /\ notification_limit = NoLimit
    /\ version = "V2"
    /\ chain_ballot_ids = {0}
    /\ build_in \in BuildCalls
    /\ build_pc = IF build_in.entry = "Config::new" THEN "check" ELSE "read"
    /\ build_cfg = [network |-> "none", version |-> "none"]
    /\ contracts = <<>>
    /\ touched = 0
    /\ build_res = NoResult

\* Config::new lines 195-237: the checks of the command line, network,
\* version and the endpoint variable
ConfigCheck ==
    /\ build_pc = "check"
    /\ \E endpoint_set \in BOOLEAN :
        LET cli == build_in
            fail ==
                IF ~one_network_specified(cli)
                THEN "MustSpecifyOneCliArgument"
                ELSE IF multiple_versions_specified(cli)
                THEN "MustSpecifyZeroOrOneCliArguments"
                ELSE IF no_contracts_specified(cli)
                THEN "MustSpecifyAtLeastOneCliArgument"
                ELSE IF cli.v1 /\ cli.xdai
                THEN "V1ContractsWereNotDeployedToXDaiChain"
                ELSE IF cli.v1 /\ cli.emission
                THEN "EmissionFundsV1ContractDoesNotExist"
                ELSE IF ~cli.one_start_block
                THEN "MustSpecifyOneCliArgument"
                ELSE IF ~endpoint_set THEN "MissingEnvVar"
                ELSE ""
        IN  IF fail # ""
            THEN /\ build_res' = Err(fail)
                 /\ build_pc' = "done"
                 /\ UNCHANGED build_cfg
            ELSE /\ build_cfg' =
                    [network |-> IF cli.core THEN "Core"
                                 ELSE IF cli.sokol THEN "Sokol" ELSE "XDai",
                     version |-> IF cli.v1 THEN "V1" ELSE "V2"]
                 /\ build_pc' = "Keys"
                 /\ UNCHANGED build_res
    /\ UNCHANGED <<progvars, clientvars, decodevars, convvars, votingvars,
                   build_in, contracts, touched>>

\* Config::new lines 240-255: the contract of the next kind, when its flag
\* is given
ConfigReadContract ==
    /\ build_pc \in ContractTypes
    /\ IF ~CliFlag(build_in, build_pc)
       THEN /\ build_pc' = AfterKind(build_pc)
            /\ UNCHANGED <<contracts, touched, build_res>>
       ELSE \E env \in ReadEnvs :
            LET r == PoaContract_read(build_pc, build_cfg.network,
                                      build_cfg.version, env)
            IN  /\ touched' = touched + r.touched
                /\ IF r.res.tag = "Ok"
                   THEN /\ contracts' = Append(contracts, r.res.value)
                        /\ build_pc' = AfterKind(build_pc)
                        /\ UNCHANGED build_res
                   ELSE /\ build_res' = r.res
                        /\ build_pc' = "done"
                        /\ UNCHANGED contracts
    /\ UNCHANGED <<progvars, clientvars, decodevars, convvars, votingvars,
                   build_in, build_cfg>>

\* Config::new lines 257-368: the remaining settings, any of which may fail,
\* and the Config
ConfigRest ==
    /\ build_pc = "rest"
    /\ build_res' \in {Ok(contracts), Err("InvalidStartBlock"),
                       Err("InvalidTail"), Err("InvalidBlockTime"),
                       Err("MissingEnvVar"), Err("InvalidSmtpPort"),
                       Err("InvalidNotificationLimit")}
    /\ build_pc' = "done"
    /\ UNCHANGED <<progvars, clientvars, decodevars, convvars, votingvars,
                   build_in, build_cfg, contracts, touched>>

\* a call of PoaContract::read from elsewhere
ReadCall ==
    /\ build_pc = "read"
    /\ \E env \in ReadEnvs :
        LET r == PoaContract_read(build_in.contract_type, build_in.network,
                                  build_in.version, env)
        IN  /\ touched' = touched + r.touched
            /\ build_res' = r.res
    /\ build_pc' = "done"
    /\ UNCHANGED <<progvars, clientvars, decodevars, convvars, votingvars,
                   build_in, build_cfg, contracts>>

NextBuild == ConfigCheck \/ ConfigReadContract \/ ConfigRest \/ ReadCall

SpecBuild == InitBuild /\ [][NextBuild]_vars

\* ======================================================================
\* Properties
\* ======================================================================
IterPcs == {"call", "while", "sleep_done", "sleep_running", "query", "emit"}

\* next() returns in this step
Returns == pc \in IterPcs /\ pc' = "ret"

\* C1: a window emitted after another one starts at the earlier window's
\* stop + 1, whatever answers, sleeps and error results lie in between.
C1_Contiguous ==
    [][(Returns /\ ret'.tag = "Window" /\ last_window # <<>>)
            => ret'.start = last_window[2] + 1]_vars

C3_KeepsEmitting ==
    /\ (pc = "while" /\ call_queried /\ start_block < stop_block)
        ~> (pc = "ret" /\ ret = RetWindow(start_block, stop_block))
    /\ [][(pc = "while" /\ start_block < stop_block /\ pc' # pc)
            => (pc' = "emit" /\ UNCHANGED <<start_block, stop_block>>)]_vars
    /\ [][(pc = "emit" /\ pc' # pc)
            => (pc' = "ret" /\ ret' = RetWindow(start_block, stop_block)
                /\ UNCHANGED <<start_block, stop_block>>)]_vars
    /\ [](ret.tag # "None")

C3_Witness ==
    /\ pc = "ret" /\ ret.tag = "Window"
    /\ ~call_first /\ call_slept /\ call_queried

\* C4: once the flag is set, a next() call that reaches its emit point
\* returns end-of-sequence, and no call returns a window.
C4_NoWindowAfterCancel ==
    [][(~running /\ Returns)
            => /\ ret'.tag # "Window"
               /\ pc = "emit" => ret'.tag = "None"]_vars

C4_Witness ==
    /\ pc = "ret" /\ ret = RetNone("Flag")
    /\ call_first /\ ~running

C6_WindowNotCutShort ==
    sig_pc \in {"fetch", "notify"} =>
        /\ pc = "call" => /\ notifications = <<>>
                          /\ IsPermutationOf(window_logs, LogsOf(delivered))
        /\ pc = "exit" =>
            \/ outcome = MainOk("EndOfSequence") /\ ret.tag = "None"
            \/ outcome = MainOk("LimitReached") /\ reached_limit(notif_count)
            \/ outcome.tag \in {"Err", "Panic"}

C6_Witness ==
    /\ sig_pc = "notify" /\ pc = "call"
    /\ Len(delivered) = 2

\* C7: the flag changes only from running to cancelled, and only in a step of
\* the signal handler.
C7_FlagMonotonic ==
    [][running' # running => (running /\ ~running' /\ Signal)]_vars

C7_Witness ==
    /\ ~running /\ sig_pc = "sleep"
    /\ pc = "exit" /\ outcome = MainOk("EndOfSequence")

\* C8: StartBlock::Number(n) with n above the last mined block answered at
\* construction fails with StartBlockExceedsLastBlockMined{n, last mined};
\* no iterator exists and no window is emitted.
C8_StartBlockValidation ==
    (start_cfg.kind = "Number" /\ last_mined_at_new >= 0
        /\ start_cfg.n > last_mined_at_new)
    => /\ pc = "exit"
       /\ outcome = StartBlockExceedsLastBlockMined(start_cfg.n,
                                                    last_mined_at_new)
       /\ ~constructed
       /\ last_window = <<>>
       /\ ret = NoRet

C8_Witness ==
    /\ start_cfg.kind = "Number"
    /\ outcome.kind = "StartBlockExceedsLastBlockMined"
    /\ outcome.a > outcome.b

\* C9: StartBlock::Tail(k) gives start = last mined - k when k <= last mined,
\* and fails with an Underflow error, no window emitted, when k > last mined.
C9_TailUnderflow ==
    (start_cfg.kind = "Tail" /\ last_mined_at_new >= 0) =>
        IF start_cfg.n <= last_mined_at_new
        THEN /\ constructed
             /\ on_first_iteration
                    => start_block = last_mined_at_new - start_cfg.n
        ELSE /\ pc = "exit"
             /\ outcome = Err("Underflow")
             /\ last_window = <<>>

\* C10: the first window is (start, last mined at construction) with start 0
\* for Earliest, last mined for Latest and n for Number(n); the first next()
\* call neither sleeps nor queries, and emits that window when the flag is
\* not set.
C10_FirstWindow ==
    (pc = "ret" /\ call_first) =>
        /\ ~call_slept /\ ~call_queried
        /\ running => ret.tag = "Window"
        /\ ret.tag = "Window" =>
            /\ ret.stop = last_mined_at_new
            /\ start_cfg.kind = "Earliest" => ret.start = 0
            /\ start_cfg.kind = "Latest" => ret.start = last_mined_at_new
            /\ start_cfg.kind = "Number" => ret.start = start_cfg.n

C10_Witness ==
    /\ pc = "ret" /\ call_first /\ ret.tag = "Window"
    /\ start_cfg.kind = "Number" /\ ret.start = 1 /\ ret.stop > 1

\* C11: when a last-mined-block query made by next() in its waiting loop
\* returns an error, that very step ends the call with this error as its
\* result: the query is not retried, no further sleep is started, the stop
\* block is left as it was and no window is emitted.
C11_QueryFailureReturned ==
    /\ [][(pc = "query" /\ last_query'.tag = "Err")
            => /\ pc' = "ret"
               /\ ret' = RetErr(last_query'.kind)
               /\ UNCHANGED <<start_block, stop_block, timervars,
                              last_window>>]_vars
    /\ [](last_query.tag = "Err"
            => /\ pc \in {"ret", "call", "exit"}
               /\ ret = RetErr(last_query.kind)
               /\ ~timer_live)

C11_Witness ==
    /\ pc = "ret" /\ call_slept
    /\ last_query = Err("RequestFailed")
    /\ ret = RetErr("RequestFailed")

\* C12: an error result of the iterator, of get_ballot_created_logs or of
\* get_voting_state / get_ballot_info ends the run at once: main returns that
\* error, no notification of the window at hand has been delivered, and
\* nothing happens after main has returned.
C12_ErrorAborts ==
    /\ [][(pc = "ret" /\ ret.tag = "Err" /\ pc' # pc)
            => /\ pc' = "exit"
               /\ outcome' = Err(ret.kind)
               /\ UNCHANGED <<delivered, notif_count>>]_vars
    /\ [](stage_error # ""
            => /\ pc = "exit"
               /\ outcome = Err(stage_error))
    /\ []((outcome.tag = "Err" /\ constructed)
            => /\ pc = "exit"
               /\ delivered = <<>>
               /\ ret.tag = "Err" \/ stage_error # "")
    /\ [][pc # "exit"]_vars

C12_Witness ==
    /\ pc = "exit" /\ cur_contract = 2
    /\ stage_error = "RequestFailed"
    /\ outcome = Err("RequestFailed")
    /\ last_window # <<>> /\ ret.tag = "Window"

\* C13: within one window the notifications reach the notifier in ascending
\* order of their log's block number, whatever the order of the contracts
\* and of the logs in each answer: what has been delivered followed by what
\* is still to be delivered is an ascending arrangement of the notifications
\* built for the window.
C13_SortedDelivery ==
    /\ IsSortedByBlock(delivered)
    /\ pc = "notify" =>
            /\ IsSortedByBlock(delivered \o notifications)
            /\ IsPermutationOf(LogsOf(delivered \o notifications),
                               window_logs)

C13_Witness ==
    /\ pc = "call" /\ Len(delivered) = 2 /\ Len(window_logs) = 2
    /\ window_logs[1].block > window_logs[2].block
    /\ LogsOf(delivered) = <<window_logs[2], window_logs[1]>>

\* C14: get_voting_state for a contract of kind Emission fails with
\* EmissionFundsV1ContractDoesNotExist and sends no request to the network.
C14_EmissionRejectedBeforeRequest ==
    (rpc_call.method = "get_voting_state" /\ rpc_call.kind = "Emission")
    => /\ requests_sent = 0
       /\ rpc_pc = "done"
            => rpc_res = Err("EmissionFundsV1ContractDoesNotExist")

\* C18: every bad answer comes back from RpcClient as an error value: a
\* transport failure as RequestFailed, a JSON-RPC failure object as
\* JsonRpcResponseFailure, and a malformed body (no single JSON-RPC response,
\* or a result that is not a hex string) as an error value too, never as the
\* end of the process.
C18_BadAnswerIsErrorValue ==
    (rpc_pc = "done" /\ requests_sent > 0) =>
        /\ rpc_body.kind = "transport" => rpc_res = Err("RequestFailed")
        /\ rpc_body.kind = "failure" => rpc_res = Err("JsonRpcResponseFailure")
        /\ rpc_body.kind \in {"badbody", "batch", "nonstring", "badhex"}
                => rpc_res.tag = "Err"

\* the value given for the parameter called name, None when the log has no
\* such parameter
ParamOf(log, name) ==
    IF \E i \in 1..Len(log) : log[i].name = name
    THEN Some((CHOOSE p \in {log[i] : i \in 1..Len(log)} : p.name = name).value)
    ELSE None

\* C15: decoding a log whose ballotType value is outside 0..6 returns an
\* error; it yields no BallotCreatedLog.
C15_UnknownBallotTypeIsError ==
    (dec_pc = "done"
        /\ ParamOf(log_in, "ballotType").some
        /\ ParamOf(log_in, "ballotType").value.type = "Uint"
        /\ ParamOf(log_in, "ballotType").value.value > LastBallotTypeCode)
    => dec_res.tag = "Err"

\* C16: decoding a log that lacks one of id, ballotType, creator, or gives
\* one of them with the wrong token type, returns
\* FailedToParseBallotCreatedLog.
C16_MissingParamIsError ==
    (dec_pc = "done"
        /\ \/ ~ParamOf(log_in, "id").some
           \/ ~ParamOf(log_in, "ballotType").some
           \/ ~ParamOf(log_in, "creator").some
           \/ ParamOf(log_in, "id").value.type # "Uint"
           \/ ParamOf(log_in, "ballotType").value.type # "Uint"
           \/ ParamOf(log_in, "creator").value.type # "Address")
    => dec_res = Err("FailedToParseBallotCreatedLog")

\* C17: decoding a log with a parameter whose name is none of id,
\* ballotType, creator returns FailedToParseBallotCreatedLog, an error
\* value.
C17_UnknownNameIsError ==
    (dec_pc = "done"
        /\ \E i \in 1..Len(log_in) : log_in[i].name \notin RequiredNames)
    => dec_res = Err("FailedToParseBallotCreatedLog")

\* C19: the vote progress made from a raw value and total_voters is the low
\* 64 bits of the raw value when they are at most total_voters, and those
\* bits minus 2^64 otherwise; it is defined for every input.
C19_ProgressReinterpreted ==
    (conv_in.fn \in {"VotingData_progress", "VotingState_progress"}
        /\ conv_out # NoResult)
    => conv_out = Ok(IF low_u64(conv_in.raw) <= conv_in.total_voters
                     THEN low_u64(conv_in.raw)
                     ELSE low_u64(conv_in.raw) - U64Mod)

\* C20: u256_to_datetime gives, for every value, the time that lies (value
\* mod 2^64) seconds after the epoch; it fails for no value.
C20_DatetimeTotalTruncating ==
    (conv_in.fn \in {"u256_to_datetime", "utils_u256_to_datetime"}
        /\ conv_out # NoResult)
    => conv_out = Ok(conv_in.raw % U64Mod)

\* C21: decoding the outputs of a V1 threshold votingState call gives
\* VotingState::Threshold with total_voters, progress, is_finalized,
\* quorum_state, index, min_threshold_of_voters, proposed_value, creator and
\* memo taken from the positions 2, 3, 4, 5, 6, 7, 8, 9 and 10 of the tuple,
\* each value as the tuple has it; every tuple the contract can return (a
\* quorum state of its enum, times chrono can hold) is decoded.
C21_ThresholdFields ==
    vs_out # NoResult =>
        LET tokens == vs_in.outputs
        IN  /\ vs_out.tag = "Ok" =>
                /\ vs_out.value.variant = "Threshold"
                /\ vs_out.value.total_voters = tok(tokens, 2)
                /\ vs_out.value.progress = tok(tokens, 3)
                /\ vs_out.value.is_finalized = tok(tokens, 4)
                /\ vs_out.value.quorum_state = tok(tokens, 5) % U64Mod
                /\ vs_out.value.index = tok(tokens, 6)
                /\ vs_out.value.min_threshold_of_voters = tok(tokens, 7)
                /\ vs_out.value.proposed_value = tok(tokens, 8)
                /\ vs_out.value.creator = tok(tokens, 9)
                /\ vs_out.value.memo = tok(tokens, 10)
            /\ (/\ tok(tokens, 5) <= LastQuorumStateCode
                /\ tok(tokens, 0) <= ChronoMaxSecs
                /\ tok(tokens, 1) <= ChronoMaxSecs) => vs_out.tag = "Ok"

C21_Witness ==
    /\ vs_out.tag = "Ok"
    /\ vs_out.value.proposed_value = 4
    /\ vs_out.value.creator = "0x82e4"
    /\ vs_out.value.min_threshold_of_voters = 1
    /\ tok(vs_in.outputs, 8) = 4 /\ tok(vs_in.outputs, 7) = 1

\* C22: no contract of kind Emission and version V1 exists: PoaContract::read
\* called for (Emission, V1) returns EmissionFundsV1ContractDoesNotExist
\* having read neither an address nor an ABI file, and every contract of a
\* Config that was built has the version of that Config and is not
\* (Emission, V1).
C22_NoEmissionV1 ==
    /\ \A i \in 1..Len(contracts) :
            /\ contracts[i] # PoaContract("Emission", "V1")
            /\ contracts[i].version = build_cfg.version
    /\ (build_in.entry = "PoaContract::read" /\ build_pc = "done") =>
            IF build_in.contract_type = "Emission" /\ build_in.version = "V1"
            THEN /\ build_res = Err("EmissionFundsV1ContractDoesNotExist")
                 /\ touched = 0
            ELSE build_res.tag = "Ok" =>
                    build_res.value = PoaContract(build_in.contract_type,
                                                  build_in.version)
    /\ (build_in.entry = "Config::new" /\ build_res.tag = "Ok") =>
            /\ build_res.value = contracts
            /\ ~(build_in.v1 /\ build_in.emission)
            /\ \A i \in 1..Len(contracts) :
                    contracts[i].version = IF build_in.v1 THEN "V1" ELSE "V2"

C22_Witness ==
    /\ build_in.entry = "PoaContract::read" /\ build_pc = "done"
    /\ build_in.contract_type = "Emission" /\ build_in.version = "V1"
    /\ build_res = Err("EmissionFundsV1ContractDoesNotExist")

\* C30: sleep_or_ctrlc returns FinishedSleeping only when the timer thread
\* that this call spawned has finished its sleep and stored into this call's
\* done flag; the timer threads left behind by earlier calls, storing while a
\* later call waits, leave that call's done flag as it is.
C30_OwnTimerOnly ==
    /\ [](done_sleeping => ~timer_live)
    /\ [][(pc = "sleep_done" /\ pc' = "query")
            => (done_sleeping /\ ~timer_live)]_vars
    /\ [][(stale_timers' < stale_timers)
            => UNCHANGED <<done_sleeping, timer_live, pc>>]_vars

C30_Witness ==
    /\ pc = "query" /\ call_slept /\ ~call_first
    /\ stale_timers > 0 /\ ~timer_live
    /\ ~running

\* C23: the wait of sleep_or_ctrlc can be interrupted: while its timer thread
\* still sleeps the call goes from its check of the done flag to its check
\* of the cancellation flag, and a check that finds the flag set returns
\* CtrlC in that step, the timer thread being left to sleep on.
C23_Interruptible ==
    /\ [][(pc = "sleep_done" /\ timer_live /\ pc' # pc)
            => pc' = "sleep_running"]_vars
    /\ [][(pc = "sleep_running" /\ ~running /\ pc' # pc)
            => /\ pc' = "ret"
               /\ ret' = RetNone("CtrlC")
               /\ timer_live => stale_timers' = stale_timers + 1]_vars

C23_Witness ==
    /\ pc = "ret" /\ ret = RetNone("CtrlC")
    /\ sig_pc = "sleep" /\ ~call_queried
    /\ stale_timers = 1

\* C24: with a notification limit configured, the notify call after which the
\* notifier reports the limit reached is the last step of the run: main
\* returns success in that step, the notifications still left of the window
\* are not delivered and next() is not called again.
C24_LimitStopsRun ==
    /\ [][(pc = "notify" /\ reached_limit(notif_count'))
            => /\ pc' = "exit"
               /\ outcome' = MainOk("LimitReached")
               /\ Len(delivered') = Len(delivered) + 1]_vars
    /\ [](outcome = MainOk("LimitReached")
            => /\ pc = "exit"
               /\ notification_limit # NoLimit
               /\ reached_limit(notif_count)
               /\ ret.tag = "Window")
    /\ [][outcome = MainOk("LimitReached")
            => UNCHANGED <<delivered, notifications, ret, last_window, pc>>]_vars

C24_Witness ==
    /\ outcome = MainOk("LimitReached") /\ pc = "exit"
    /\ Len(delivered) = 1 /\ Len(notifications) = 1
    /\ Len(window_logs) = 2

\* C25: an error result leaves the position of the traversal as it was: when
\* next() returns the error of a failed last-mined-block query, the stop
\* block the iterator holds is the stop of the last window it emitted, so
\* that the window of a later call starts one block after that window.
C25_ErrorKeepsPosition ==
    /\ [](pc = "ret" /\ ret.tag = "Err" /\ last_window # <<>>
            => stop_block = last_window[2])
    /\ [][(pc = "call" /\ ret.tag = "Err" /\ last_window # <<>>
                /\ pc' = "while")
            => start_block' = last_window[2] + 1]_vars

\* C26: every window but the first has start < stop: when the last mined
\* block is exactly the candidate start (one new block), next() does not
\* emit the window of that one block but sleeps and queries again.
C26_LaterWindowsSpanTwoBlocks ==
    /\ [][(Returns /\ ret'.tag = "Window" /\ ~call_first)
            => ret'.start < ret'.stop]_vars
    /\ [][(pc = "while" /\ ~call_first /\ stop_block = start_block
                /\ pc' # pc)
            => (pc' = "sleep_done" /\ timer_live')]_vars

C26_Witness ==
    /\ pc = "sleep_done" /\ timer_live
    /\ ~call_first /\ call_queried
    /\ last_query = Ok(start_block) /\ stop_block = start_block
    /\ last_window # <<>> /\ start_block = last_window[2] + 1

C28_RunOrder ==
    /\ [][(pc = "notify" /\ delivered' # delivered)
            => /\ last_notified' = Head(notifications).block
               /\ last_notified <= last_notified'
               /\ earlier_notified <= last_notified']_vars
    /\ [][(pc' = "call" /\ pc # "call") => notifications' = <<>>]_vars
    /\ [][(Returns /\ ret'.tag = "Window" /\ last_window # <<>>)
            => last_window[2] < ret'.start]_vars

C28_Witness ==
    /\ earlier_notified >= 0 /\ delivered # <<>>
    /\ last_notified = delivered[Len(delivered)].block
    /\ earlier_notified < last_notified
    /\ ~call_first

\* C29: in a window handled without error and without the limit reached,
\* the notifier is given one notification for each ballot-created log the
\* monitored contracts answered for the window, and each notification holds
\* its log together with the state asked of the log's own contract for the
\* log's own ballot id, by votingState when the contracts are V1 and by
\* getBallotInfo otherwise.
C29_OnePerLogOwnState ==
    /\ \A i \in 1..Len(delivered \o notifications) :
        LET notif == (delivered \o notifications)[i]
        IN  notif.state =
                [method |-> IF version = "V1" THEN "votingState"
                            ELSE "getBallotInfo",
                 contract |-> notif.contract,
                 ballot_id |-> notif.ballot_id]
    /\ pc \in {"sort", "notify"}
            => IsPermutationOf(LogsOf(delivered \o notifications),
                               window_logs)
    /\ (pc = "call" /\ last_window # <<>>)
            => /\ notifications = <<>>
               /\ IsPermutationOf(LogsOf(delivered), window_logs)

C29_Witness ==
    /\ pc = "call" /\ version = "V1"
    /\ Len(window_logs) = 2 /\ Len(delivered) = 2
    /\ delivered[1].contract # delivered[2].contract
    /\ delivered[1].ballot_id # delivered[2].ballot_id
    /\ delivered[1].state.method = "votingState"

====
